---- MODULE Spec2Model ----
(***************************************************************************)
(* Model of redisearch/schema.go: the index-schema builder.                *)
(*                                                                         *)
(* A Go value of a struct type is a record.  A slice is a record           *)
(* [isNil, elems] so that the nil slice and the empty slice []T{} stay     *)
(* distinct, as `m.Fields == nil` distinguishes them.  The interface{}     *)
(* slot Field.Options is a record tagged by `kind` with the dynamic type   *)
(* of the stored value ("nil" for the nil interface).  *Schema pointers    *)
(* are indices into `heap`.  A float32 weight is one of the small          *)
(* integral values 0..MaxWeight; a byte separator is its numeric value.    *)
(***************************************************************************)
EXTENDS Integers, Sequences, FiniteSets

VARIABLES
    heap,   \* the Schema objects allocated so far; a *Schema is an index
    hist,   \* per Schema object: how it was made, and the AddField arguments
    call,   \* the last call made by the caller, with its arguments
    ret     \* what that call returned

vars == <<heap, hist, call, ret>>

---------------------------------------------------------------------------
(* Bounds of the model *)

\* at most this many Schema objects are allocated
MaxSchemas == 2
\* at most this many Field entries are appended over all Schema objects
MaxFields == 2
\* weights passed to the text constructors range over 0..MaxWeight
MaxWeight == 2

---------------------------------------------------------------------------
(* Types and zero values *)

TextField == 0
NumericField == 1
GeoField == 2
TagField == 3

FieldTypes == {TextField, NumericField, GeoField, TagField}

\* the separator NewTagField writes: the byte ','
Comma == 44

NilSlice == [isNil |-> TRUE, elems |-> <<>>]
MakeSlice(s) == [isNil |-> FALSE, elems |-> s]

\* Options{}: every flag false, Stopwords the nil slice
ZeroOptions ==
    [NoSave |-> FALSE, NoFieldFlags |-> FALSE, NoFrequencies |-> FALSE,
     NoOffsetVectors |-> FALSE, Stopwords |-> NilSlice]

DefaultOptions ==
    [NoSave |-> FALSE, NoFieldFlags |-> FALSE, NoFrequencies |-> FALSE,
     NoOffsetVectors |-> FALSE, Stopwords |-> NilSlice]

\* the nil interface value
NilOptions == [kind |-> "nil"]

\* TextFieldOptions{}
ZeroTextFieldOptions ==
    [kind |-> "TextFieldOptions", Weight |-> 0, Sortable |-> FALSE,
     NoStem |-> FALSE, NoIndex |-> FALSE]

\* TagFieldOptions{}
ZeroTagFieldOptions ==
    [kind |-> "TagFieldOptions", Separator |-> 0, NoIndex |-> FALSE,
     Sortable |-> FALSE]

\* NumericFieldOptions{}
ZeroNumericFieldOptions ==
    [kind |-> "NumericFieldOptions", Sortable |-> FALSE, NoIndex |-> FALSE]

\* Field{}
ZeroField ==
    [Name |-> "", Type |-> TextField, Sortable |-> FALSE, Options |-> NilOptions]

\* Schema{}
ZeroSchema == [Fields |-> NilSlice, Options |-> ZeroOptions]

---------------------------------------------------------------------------
(* The field constructors *)

NewTextField(name) ==
    [ZeroField EXCEPT !.Name = name, !.Type = TextField, !.Options = NilOptions]

NewTextFieldOptions(name, opts) ==
    LET f == NewTextField(name)
    IN  [f EXCEPT !.Options = opts]

\* mutant: the weight argument is dropped
NewSortableTextField_DropsWeight(name, weight) ==
    NewTextFieldOptions(name, [ZeroTextFieldOptions EXCEPT !.Sortable = TRUE])

NewSortableTextField(name, weight) ==
    NewTextFieldOptions(name,
        [ZeroTextFieldOptions EXCEPT !.Weight = weight, !.Sortable = TRUE])

NewTagField(name) ==
    [ZeroField EXCEPT !.Name = name, !.Type = TagField,
        !.Options = [ZeroTagFieldOptions EXCEPT !.Separator = Comma,
                                                !.NoIndex = FALSE]]

\* mutant: a zero separator is replaced by the default ','
NewTagFieldOptions_DefaultSep(name, opts) ==
    [ZeroField EXCEPT !.Name = name, !.Type = TagField,
        !.Options = IF opts.Separator = 0
                    THEN [opts EXCEPT !.Separator = Comma] ELSE opts]

NewTagFieldOptions(name, opts) ==
    [ZeroField EXCEPT !.Name = name, !.Type = TagField, !.Options = opts]

NewNumericField(name) ==
    [ZeroField EXCEPT !.Name = name, !.Type = NumericField]

\* mutant: the assignment f.Options = options is missing
NewNumericFieldOptions_DropsOptions(name, options) ==
    NewNumericField(name)

NewNumericFieldOptions(name, options) ==
    LET f == NewNumericField(name)
    IN  [f EXCEPT !.Options = options]

\* mutant: the sortable flag is never set
NewSortableNumericField_Unsorted(name) ==
    LET f == NewNumericField(name)
    IN  [f EXCEPT !.Options = ZeroNumericFieldOptions]

\* mutant: the flag is also written to the top-level Field.Sortable
NewSortableNumericField_TopLevel(name) ==
    LET f == NewNumericField(name)
    IN  [f EXCEPT !.Sortable = TRUE,
                  !.Options = [ZeroNumericFieldOptions EXCEPT !.Sortable = TRUE]]

NewSortableNumericField(name) ==
    LET f == NewNumericField(name)
    IN  [f EXCEPT !.Options = [ZeroNumericFieldOptions EXCEPT !.Sortable = TRUE]]

---------------------------------------------------------------------------
(* Inputs *)

Names == {"", "body", "price"}
Weights == 0..MaxWeight
Separators == {0, Comma, 59}

TextFieldOptionsArgs ==
    [kind : {"TextFieldOptions"}, Weight : Weights, Sortable : BOOLEAN,
     NoStem : BOOLEAN, NoIndex : BOOLEAN]

TagFieldOptionsArgs ==
    [kind : {"TagFieldOptions"}, Separator : Separators, NoIndex : BOOLEAN,
     Sortable : BOOLEAN]

NumericFieldOptionsArgs ==
    [kind : {"NumericFieldOptions"}, Sortable : BOOLEAN, NoIndex : BOOLEAN]

\* Options values a caller passes to NewSchema or writes into a Schema literal
OptionsArgs ==
    { DefaultOptions,
      [ZeroOptions EXCEPT !.NoSave = TRUE],
      [ZeroOptions EXCEPT !.NoFieldFlags = TRUE],
      [ZeroOptions EXCEPT !.NoFrequencies = TRUE],
      [ZeroOptions EXCEPT !.NoOffsetVectors = TRUE],
      [ZeroOptions EXCEPT !.Stopwords = MakeSlice(<<"the">>)] }

\* Options values a caller writes into a Schema literal: Schema{} and one more
LiteralOptionsArgs ==
    { ZeroOptions,
      [ZeroOptions EXCEPT !.NoSave = TRUE, !.Stopwords = MakeSlice(<<"the">>)] }

\* The Field arguments a caller passes to AddField, each with the expression
\* that produced it: constructor results, and Field literals that no
\* constructor returns (empty name, Options of another type's variant, a Geo
\* field carrying options, the top-level Sortable set).
FieldArgs ==
    { [src |-> "NewTextField", val |-> NewTextField("body")],
      [src |-> "NewNumericField", val |-> NewNumericField("price")],
      [src |-> "NewSortableTextField", val |-> NewSortableTextField("body", 2)],
      [src |-> "NewSortableNumericField", val |-> NewSortableNumericField("price")],
      [src |-> "literal",
       val |-> [Name |-> "", Type |-> NumericField, Sortable |-> TRUE,
                Options |-> ZeroTagFieldOptions]],
      [src |-> "literal",
       val |-> [Name |-> "body", Type |-> GeoField, Sortable |-> FALSE,
                Options |-> [ZeroNumericFieldOptions EXCEPT !.NoIndex = TRUE]]] }

---------------------------------------------------------------------------
(* The Schema operations *)

Ptr(p) == [kind |-> "ptr", ptr |-> p]
FieldVal(f) == [kind |-> "Field", val |-> f]

\* mutant: the argument is stored in the new Schema
NewSchema_StoresOpts(opts) ==
    /\ heap' = Append(heap, [ZeroSchema EXCEPT !.Fields = MakeSlice(<<>>),
                                               !.Options = opts])
    /\ ret' = Ptr(Len(heap) + 1)

\* func NewSchema(opts Options) *Schema
NewSchema(opts) ==
    /\ heap' = Append(heap, [ZeroSchema EXCEPT !.Fields = MakeSlice(<<>>)])
    /\ ret' = Ptr(Len(heap) + 1)

\* mutant: the field is put in front of the others
AddField_Prepend(m, f) ==
    /\ heap' = [heap EXCEPT ![m].Fields = MakeSlice(<<f>> \o heap[m].Fields.elems)]
    /\ ret' = Ptr(m)

\* mutant: the top-level Sortable is synchronised with the options' Sortable
AddField_Normalize(m, f) ==
    LET g == IF f.Options.kind = "nil" THEN f
             ELSE [f EXCEPT !.Sortable = f.Options.Sortable]
    IN  /\ heap' = [heap EXCEPT ![m].Fields = MakeSlice(Append(heap[m].Fields.elems, g))]
        /\ ret' = Ptr(m)

\* mutant: the receiver is left alone and a copy with the field is returned
AddField_Copy(m, f) ==
    /\ heap' = Append(heap,
                 [heap[m] EXCEPT !.Fields = MakeSlice(Append(heap[m].Fields.elems, f))])
    /\ ret' = Ptr(Len(heap) + 1)

\* mutant: a field whose Name is already present replaces that entry
AddField_ReplaceByName(m, f) ==
    LET old == heap[m].Fields.elems
        dup == {i \in 1..Len(old) : old[i].Name = f.Name}
        new == IF dup = {} THEN Append(old, f)
               ELSE [i \in 1..Len(old) |-> IF i \in dup THEN f ELSE old[i]]
    IN  /\ heap' = [heap EXCEPT ![m].Fields = MakeSlice(new)]
        /\ ret' = Ptr(m)

\* func (m *Schema) AddField(f Field) *Schema
AddField(m, f) ==
    LET init == IF heap[m].Fields.isNil THEN MakeSlice(<<>>) ELSE heap[m].Fields
    IN  /\ heap' = [heap EXCEPT ![m].Fields = MakeSlice(Append(init.elems, f))]
        /\ ret' = Ptr(m)

\* the number of Field entries held by the Schema objects h[1..n]
RECURSIVE CountFields(_, _)
CountFields(h, n) ==
    IF n = 0 THEN 0 ELSE Len(h[n].Fields.elems) + CountFields(h, n - 1)

---------------------------------------------------------------------------
(* The caller's steps *)

\* s := NewSchema(opts)
CallNewSchema(opts) ==
    /\ Len(heap) < MaxSchemas
    /\ NewSchema(opts)
    /\ hist' = Append(hist, [made |-> "NewSchema", added |-> <<>>])
    /\ call' = [op |-> "NewSchema", opts |-> opts]

\* s := &Schema{Options: opts}; with opts the zero value this is &Schema{}
CallSchemaLiteral(opts) ==
    /\ Len(heap) < MaxSchemas
    /\ heap' = Append(heap, [ZeroSchema EXCEPT !.Options = opts])
    /\ ret' = Ptr(Len(heap) + 1)
    /\ hist' = Append(hist, [made |-> "literal", added |-> <<>>])
    /\ call' = [op |-> "literal", opts |-> opts]

\* m.AddField(a.val) on an allocated Schema
CallAddField(m, a) ==
    /\ CountFields(heap, Len(heap)) < MaxFields
    /\ AddField(m, a.val)
    /\ hist' = [hist EXCEPT ![m].added = Append(@, a)]
    /\ call' = [op |-> "AddField", m |-> m, arg |-> a]

CallNewTextField(name) ==
    /\ call' = [op |-> "NewTextField", name |-> name]
    /\ ret' = FieldVal(NewTextField(name))
    /\ UNCHANGED <<heap, hist>>

CallNewTextFieldOptions(name, opts) ==
    /\ call' = [op |-> "NewTextFieldOptions", name |-> name, opts |-> opts]
    /\ ret' = FieldVal(NewTextFieldOptions(name, opts))
    /\ UNCHANGED <<heap, hist>>

CallNewSortableTextField(name, weight) ==
    /\ call' = [op |-> "NewSortableTextField", name |-> name, weight |-> weight]
    /\ ret' = FieldVal(NewSortableTextField(name, weight))
    /\ UNCHANGED <<heap, hist>>

CallNewTagField(name) ==
    /\ call' = [op |-> "NewTagField", name |-> name]
    /\ ret' = FieldVal(NewTagField(name))
    /\ UNCHANGED <<heap, hist>>

CallNewTagFieldOptions(name, opts) ==
    /\ call' = [op |-> "NewTagFieldOptions", name |-> name, opts |-> opts]
    /\ ret' = FieldVal(NewTagFieldOptions(name, opts))
    /\ UNCHANGED <<heap, hist>>

CallNewNumericField(name) ==
    /\ call' = [op |-> "NewNumericField", name |-> name]
    /\ ret' = FieldVal(NewNumericField(name))
    /\ UNCHANGED <<heap, hist>>

CallNewNumericFieldOptions(name, opts) ==
    /\ call' = [op |-> "NewNumericFieldOptions", name |-> name, opts |-> opts]
    /\ ret' = FieldVal(NewNumericFieldOptions(name, opts))
    /\ UNCHANGED <<heap, hist>>

CallNewSortableNumericField(name) ==
    /\ call' = [op |-> "NewSortableNumericField", name |-> name]
    /\ ret' = FieldVal(NewSortableNumericField(name))
    /\ UNCHANGED <<heap, hist>>

---------------------------------------------------------------------------
(* Specifications *)

Init ==
    /\ heap = <<>>
    /\ hist = <<>>
    /\ call = [op |-> "none"]
    /\ ret = [kind |-> "none"]

\* the builder: Schema objects are made and fields are added to them
Next ==
    \/ \E opts \in OptionsArgs : CallNewSchema(opts)
    \/ \E opts \in LiteralOptionsArgs : CallSchemaLiteral(opts)
    \/ \E m \in 1..Len(heap) : \E a \in FieldArgs : CallAddField(m, a)

Spec == Init /\ [][Next]_vars

\* the field constructors, applied to every argument of the input sets
NextCtor ==
    \/ \E name \in Names : CallNewTextField(name)
    \/ \E name \in Names : \E opts \in TextFieldOptionsArgs :
          CallNewTextFieldOptions(name, opts)
    \/ \E name \in Names : \E weight \in Weights :
          CallNewSortableTextField(name, weight)
    \/ \E name \in Names : CallNewTagField(name)
    \/ \E name \in Names : \E opts \in TagFieldOptionsArgs :
          CallNewTagFieldOptions(name, opts)
    \/ \E name \in Names : CallNewNumericField(name)
    \/ \E name \in Names : \E opts \in NumericFieldOptionsArgs :
          CallNewNumericFieldOptions(name, opts)
    \/ \E name \in Names : CallNewSortableNumericField(name)

SpecCtor == Init /\ [][NextCtor]_vars

---------------------------------------------------------------------------
(* Properties of the Schema operations (checked under Spec) *)

Schemas == 1..Len(heap)
FieldsOf(p) == heap[p].Fields.elems
IsPrefix(s, t) == Len(s) <= Len(t) /\ SubSeq(t, 1, Len(s)) = s
Occurrences(s, x) == Cardinality({i \in 1..Len(s) : s[i] = x})

\* C1: after AddField has been called with f1..fn, in that order, on a Schema
\* obtained from NewSchema, Fields has length n and Fields[i] is fi for every i.
C1_FieldsInCallOrder ==
    \A p \in Schemas :
        hist[p].made = "NewSchema" =>
            /\ Len(FieldsOf(p)) = Len(hist[p].added)
            /\ \A i \in 1..Len(hist[p].added) : FieldsOf(p)[i] = hist[p].added[i].val

\* NewSchema(DefaultOptions).AddField(NewTextField("body"))
\*                          .AddField(NewNumericField("price"))
C1_Witness ==
    \E p \in Schemas :
        /\ hist[p].made = "NewSchema"
        /\ Len(hist[p].added) = 2
        /\ hist[p].added[1].src = "NewTextField"
        /\ hist[p].added[2].src = "NewNumericField"
        /\ FieldsOf(p) =
             << [Name |-> "body", Type |-> TextField, Sortable |-> FALSE,
                 Options |-> NilOptions],
                [Name |-> "price", Type |-> NumericField, Sortable |-> FALSE,
                 Options |-> NilOptions] >>

\* C2: one AddField(f) on a Schema holding n fields leaves it holding n+1, the
\* new last entry equal to f in Name, Type, Sortable and Options, the first n
\* entries and Schema.Options unchanged; and no step of any operation removes or
\* rewrites an entry: the Fields of a Schema before a step are a prefix of its
\* Fields after it.
C2_AppendOnly ==
    [][ /\ Len(heap') >= Len(heap)
        /\ \A p \in Schemas : IsPrefix(heap[p].Fields.elems, heap'[p].Fields.elems)
        /\ call'.op = "AddField" =>
             LET m == call'.m
                 f == call'.arg.val
                 n == Len(heap[m].Fields.elems)
                 new == heap'[m].Fields.elems
             IN  /\ Len(new) = n + 1
                 /\ new[n + 1].Name = f.Name
                 /\ new[n + 1].Type = f.Type
                 /\ new[n + 1].Sortable = f.Sortable
                 /\ new[n + 1].Options = f.Options
                 /\ SubSeq(new, 1, n) = heap[m].Fields.elems
                 /\ heap'[m].Options = heap[m].Options ]_vars

\* AddField has just added a second field, one whose two Sortable flags differ,
\* to a Schema whose Options are not the zero value
C2_Witness ==
    /\ call.op = "AddField"
    /\ Len(FieldsOf(call.m)) = 2
    /\ heap[call.m].Options # ZeroOptions
    /\ call.arg.val.Options.kind # "nil"
    /\ call.arg.val.Sortable # call.arg.val.Options.Sortable
    /\ FieldsOf(call.m)[2] = call.arg.val

\* C3: NewSchema(opts) returns a Schema with no fields and with the zero Options
\* (the four flags false, Stopwords unset) whatever opts is, and the Options of a
\* Schema made by NewSchema are still the zero value after any AddField calls.
C3_NewSchemaIgnoresOptions ==
    /\ call.op = "NewSchema" =>
         /\ ret.kind = "ptr"
         /\ Len(FieldsOf(ret.ptr)) = 0
         /\ heap[ret.ptr].Options.NoSave = FALSE
         /\ heap[ret.ptr].Options.NoFieldFlags = FALSE
         /\ heap[ret.ptr].Options.NoFrequencies = FALSE
         /\ heap[ret.ptr].Options.NoOffsetVectors = FALSE
         /\ heap[ret.ptr].Options.Stopwords.isNil
         /\ (call.opts # ZeroOptions => heap[ret.ptr].Options # call.opts)
    /\ \A p \in Schemas :
         hist[p].made = "NewSchema" => heap[p].Options = ZeroOptions

\* NewSchema was just called with a stop-word list, after fields were added to
\* an earlier Schema made by NewSchema
C3_Witness ==
    /\ call.op = "NewSchema"
    /\ ~call.opts.Stopwords.isNil
    /\ \E p \in Schemas :
         hist[p].made = "NewSchema" /\ Len(FieldsOf(p)) = 2

\* C5: AddField returns its receiver, changes that Schema object and no other
\* (none is allocated, the others are as they were), and on a Schema whose
\* Fields are nil it leaves Fields = [f].
C5_InPlaceSameInstance ==
    [][ call'.op = "AddField" =>
          LET m == call'.m
              f == call'.arg.val
          IN  /\ ret' = Ptr(m)
              /\ Len(heap') = Len(heap)
              /\ heap'[m] # heap[m]
              /\ heap'[m].Fields.elems[Len(heap'[m].Fields.elems)] = f
              /\ \A p \in Schemas \ {m} : heap'[p] = heap[p]
              /\ heap[m].Fields.isNil => heap'[m].Fields = MakeSlice(<<f>>) ]_vars

\* AddField was called on a Schema literal (nil Fields) while another Schema
\* exists, and then once more on the pointer it returned
C5_Witness ==
    /\ call.op = "AddField"
    /\ Len(heap) = 2
    /\ ret = Ptr(call.m)
    /\ hist[call.m].made = "literal"
    /\ Len(hist[call.m].added) = 2
    /\ ~heap[call.m].Fields.isNil
    /\ Len(FieldsOf(call.m)) = 2

\* C6: AddField has no failing case and validates nothing: it can be called with
\* every Field on every Schema (while the model's bound on the number of entries
\* allows another one), the entry it appends is the argument unchanged, and every
\* Schema holds each value, and each Name, as many times as it was added.
C6_NoValidation ==
    /\ CountFields(heap, Len(heap)) < MaxFields =>
         \A m \in Schemas : \A a \in FieldArgs : ENABLED CallAddField(m, a)
    /\ call.op = "AddField" =>
         /\ ret.kind = "ptr"
         /\ FieldsOf(call.m)[Len(FieldsOf(call.m))] = call.arg.val
    /\ \A p \in Schemas :
         /\ \A a \in FieldArgs :
              Occurrences(FieldsOf(p), a.val) = Occurrences(hist[p].added, a)
         /\ \A name \in Names :
              Cardinality({i \in 1..Len(FieldsOf(p)) : FieldsOf(p)[i].Name = name})
                = Cardinality({i \in 1..Len(hist[p].added) :
                                  hist[p].added[i].val.Name = name})

\* a Schema holds two fields named "body", the second a Geo field carrying
\* NumericFieldOptions
C6_Witness ==
    /\ call.op = "AddField"
    /\ call.arg.src = "literal"
    /\ call.arg.val.Type = GeoField
    /\ call.arg.val.Options.kind = "NumericFieldOptions"
    /\ Len(FieldsOf(call.m)) = 2
    /\ FieldsOf(call.m)[1].Name = FieldsOf(call.m)[2].Name
    /\ FieldsOf(call.m)[2] = call.arg.val

---------------------------------------------------------------------------
(* Properties of the field constructors (checked under SpecCtor) *)

\* the FieldType a constructor is named after
TypeNamedBy(op) ==
    CASE op \in {"NewTextField", "NewTextFieldOptions", "NewSortableTextField"}
           -> TextField
      [] op \in {"NewTagField", "NewTagFieldOptions"}
           -> TagField
      [] op \in {"NewNumericField", "NewNumericFieldOptions",
                 "NewSortableNumericField"}
           -> NumericField

\* the options variant that belongs to a FieldType
VariantOf(type) ==
    CASE type = TextField -> "TextFieldOptions"
      [] type = TagField -> "TagFieldOptions"
      [] type = NumericField -> "NumericFieldOptions"
      [] type = GeoField -> "nil"

\* C4, as claimed: every constructor returns a Field of the type it is named
\* after whose Options hold the options variant of that type.
C4_EveryConstructorSetsVariant ==
    ret.kind = "Field" =>
        /\ ret.val.Type = TypeNamedBy(call.op)
        /\ ret.val.Options.kind = VariantOf(ret.val.Type)

\* C4, amended: every constructor returns a Field of the type it is named after;
\* NewTextField and NewNumericField leave Options nil, and the other six store
\* the options variant of that type: the *Options constructors the value they
\* were given, NewTagField and the Sortable constructors one they build.
C4_VariantUnlessPlainConstructor ==
    ret.kind = "Field" =>
        /\ ret.val.Type = TypeNamedBy(call.op)
        /\ IF call.op \in {"NewTextField", "NewNumericField"}
           THEN ret.val.Options = NilOptions
           ELSE ret.val.Options.kind = VariantOf(ret.val.Type)
        /\ call.op \in {"NewTextFieldOptions", "NewTagFieldOptions",
                        "NewNumericFieldOptions"} => ret.val.Options = call.opts

\* NewTextField("body") has returned a Text field whose Options are nil
C4_Witness ==
    /\ call.op = "NewTextField"
    /\ call.name = "body"
    /\ ret.val.Type = TextField
    /\ ret.val.Options.kind = "nil"

\* C7: NewSortableTextField(name, weight) returns a Text field named name whose
\* Options are a TextFieldOptions with the given Weight, Sortable true, and
\* NoStem and NoIndex false.
C7_SortableTextField ==
    call.op = "NewSortableTextField" =>
        /\ ret.kind = "Field"
        /\ ret.val.Name = call.name
        /\ ret.val.Type = TextField
        /\ ret.val.Options.kind = "TextFieldOptions"
        /\ ret.val.Options.Weight = call.weight
        /\ ret.val.Options.Sortable = TRUE
        /\ ret.val.Options.NoStem = FALSE
        /\ ret.val.Options.NoIndex = FALSE

\* NewSortableTextField("body", 2) has returned
C7_Witness ==
    /\ call.op = "NewSortableTextField"
    /\ call.name = "body"
    /\ call.weight = 2
    /\ ret.val.Options.Weight = 2
    /\ ret.val.Options.Sortable

\* C8: NewTagField(name) returns a Tag field named name whose Options are a
\* TagFieldOptions with Separator ',', NoIndex false and Sortable false;
\* NewTagFieldOptions(name, opts) stores opts as given, a zero Separator included.
C8_TagFieldSeparator ==
    /\ call.op = "NewTagField" =>
         /\ ret.kind = "Field"
         /\ ret.val.Name = call.name
         /\ ret.val.Type = TagField
         /\ ret.val.Options.kind = "TagFieldOptions"
         /\ ret.val.Options.Separator = Comma
         /\ ret.val.Options.NoIndex = FALSE
         /\ ret.val.Options.Sortable = FALSE
    /\ call.op = "NewTagFieldOptions" =>
         /\ ret.kind = "Field"
         /\ ret.val.Name = call.name
         /\ ret.val.Type = TagField
         /\ ret.val.Options = call.opts
         /\ call.opts.Separator = 0 => ret.val.Options.Separator = 0

\* NewTagFieldOptions has returned for options whose Separator is the zero byte
C8_Witness ==
    /\ call.op = "NewTagFieldOptions"
    /\ call.opts.Separator = 0
    /\ call.opts.Sortable
    /\ ret.val.Options.Separator # Comma

\* C9: NewSortableNumericField(name) returns a Numeric field named name whose
\* Options are a NumericFieldOptions with Sortable true and NoIndex false.
C9_SortableNumericField ==
    call.op = "NewSortableNumericField" =>
        /\ ret.kind = "Field"
        /\ ret.val.Name = call.name
        /\ ret.val.Type = NumericField
        /\ ret.val.Options.kind = "NumericFieldOptions"
        /\ ret.val.Options.Sortable = TRUE
        /\ ret.val.Options.NoIndex = FALSE

\* NewSortableNumericField("price") has returned
C9_Witness ==
    /\ call.op = "NewSortableNumericField"
    /\ call.name = "price"
    /\ ret.val.Type = NumericField
    /\ ret.val.Options.Sortable

---------------------------------------------------------------------------
(* The top-level Field.Sortable (checked under Spec) *)

\* over the input sets: each constructor returns the top-level Sortable false,
\* also where the options it stores say Sortable
ConstructorsLeaveSortableUnset ==
    \A name \in Names :
    /\ NewTextField(name).Sortable = FALSE
    /\ NewTagField(name).Sortable = FALSE
    /\ NewNumericField(name).Sortable = FALSE
    /\ LET f == NewSortableNumericField(name)
       IN  f.Sortable = FALSE /\ f.Options.Sortable # f.Sortable
    /\ \A weight \in Weights :
         LET f == NewSortableTextField(name, weight)
         IN  f.Sortable = FALSE /\ f.Options.Sortable # f.Sortable
    /\ \A opts \in TextFieldOptionsArgs :
         LET f == NewTextFieldOptions(name, opts)
         IN  /\ f.Sortable = FALSE
             /\ opts.Sortable => f.Options.Sortable # f.Sortable
    /\ \A opts \in TagFieldOptionsArgs :
         LET f == NewTagFieldOptions(name, opts)
         IN  /\ f.Sortable = FALSE
             /\ opts.Sortable => f.Options.Sortable # f.Sortable
    /\ \A opts \in NumericFieldOptionsArgs :
         LET f == NewNumericFieldOptions(name, opts)
         IN  /\ f.Sortable = FALSE
             /\ opts.Sortable => f.Options.Sortable # f.Sortable

\* C10: no constructor sets the top-level Field.Sortable, whatever its
\* arguments; the Sortable constructors, and the *Options constructors given
\* Sortable options, return a Field whose options say Sortable while the top
\* level says not; and a Schema to which only constructor results were added has
\* the top-level Sortable false in every entry.
C10_TopLevelSortableNeverSet ==
    /\ ConstructorsLeaveSortableUnset
    /\ \A p \in Schemas :
         (\A i \in 1..Len(hist[p].added) : hist[p].added[i].src # "literal") =>
             \A i \in 1..Len(FieldsOf(p)) : FieldsOf(p)[i].Sortable = FALSE

\* a Schema built from NewSortableTextField and NewSortableNumericField results:
\* both entries say Sortable in their options and not at the top level
C10_Witness ==
    \E p \in Schemas :
        /\ Len(FieldsOf(p)) = 2
        /\ hist[p].added[1].src = "NewSortableTextField"
        /\ hist[p].added[2].src = "NewSortableNumericField"
        /\ \A i \in 1..2 :
             FieldsOf(p)[i].Options.Sortable /\ ~FieldsOf(p)[i].Sortable

====
